---- MODULE Spec2Model ----
(***************************************************************************)
(* A model of the catalog bot of main.py: the Action registry kept in      *)
(* books.db, the shared cookie Session, and the update handlers            *)
(* handle_message, handle_start and handle_callback.                       *)
(*                                                                         *)
(* Strings are TLA+ strings; concatenation, slicing and prefix tests are   *)
(* computed on them as Python computes them.  Button labels written in     *)
(* Cyrillic in the source are transliterated, since they are only          *)
(* constants.  sha256 is an ideal digest: the digest of a string is the    *)
(* tagged string, so two digests are equal exactly when the digested       *)
(* strings are equal; the reduction of the digest to a machine word by     *)
(* hash() is taken to be free of collisions as well.  None, and an absent  *)
(* title, rel or authors list, are the empty string or sequence wherever   *)
(* the code only tests them for truth.                                     *)
(*                                                                         *)
(* A handler runs without interruption up to an await: the registry calls  *)
(* and the blocking requests of a handler are one step.  After that only   *)
(* transport calls are awaited, one step each.  Each task record keeps a   *)
(* log of the run: the requests made (net), how the page or document       *)
(* request ended (fetch), the entries fetched, the Actions passed to add   *)
(* (added), the transport calls delivered (out) and whether a BadRequest   *)
(* of one of them was caught (caught).                                     *)
(***************************************************************************)
EXTENDS Bags, FiniteSets, Integers, Sequences, TLC

VARIABLES
    store,      \* the rows of table actions of books.db, a bag of rows
    cookies,    \* the global cookies: the expiry of each cookie, 0 = none
    now,        \* time.time()
    task,       \* the handler coroutines, one record per task
    shown,      \* the callback_data of every button delivered to a chat
    updates,    \* number of inbound updates dispatched so far
    reg         \* the last call made on the repository or the Session in isolation

vars == <<store, cookies, now, task, shown, updates, reg>>

----------------------------------------------------------------------------
(* Bounds *)

MaxUpdates == 3              \* updates handled one after the other
MaxConcurrentUpdates == 2    \* updates handled when handlers may overlap
MaxTime == 2                 \* the last reading of the clock
NumTasks == 2                \* handler tasks that can be in flight at once

----------------------------------------------------------------------------
(* Strings *)

base_url == "https://flibusta.is/opds"

Digit == <<"0", "1", "2", "3", "4", "5", "6", "7", "8", "9">>

\* str(n) for n >= 0
RECURSIVE str(_)
str(n) == IF n < 10 THEN Digit[n + 1]
          ELSE str(n \div 10) \o Digit[(n % 10) + 1]

DigitVal(c) == CHOOSE d \in 0..9 : Digit[d + 1] = c

\* int(s) for a string of decimal digits
RECURSIVE int(_)
int(s) == IF Len(s) = 1 THEN DigitVal(s)
          ELSE 10 * int(SubSeq(s, 1, Len(s) - 1)) + DigitVal(SubSeq(s, Len(s), Len(s)))

\* s.startswith(p)
startswith(s, p) == Len(s) >= Len(p) /\ SubSeq(s, 1, Len(p)) = p

\* a mutant of replace_space: the text is left as it is
replace_space_raw(s) == s

\* s.replace(" ", "%20")
RECURSIVE replace_space(_)
replace_space(s) == IF s = "" THEN ""
                    ELSE (IF Head(s) = " " THEN "%20" ELSE Head(s)) \o replace_space(Tail(s))

\* ", ".join(names)
RECURSIVE join(_)
join(names) == IF names = <<>> THEN ""
               ELSE IF Len(names) = 1 THEN names[1]
               ELSE names[1] \o ", " \o join(Tail(names))

----------------------------------------------------------------------------
(* Action and its token *)

Action(t, u, v) == [action_type |-> t, url |-> u, value |-> v]

None == [none |-> TRUE]

\* the string Action.__hash__ digests
hash_str(a) == a.action_type \o a.url \o a.value

sha256(s) == <<"sha256", s>>

\* hash(action)
Action_hash(a) == sha256(hash_str(a))

\* action.json(): the object's fields in declaration order
Action_json(a) == <<a.action_type, a.url, a.value>>

\* Action(**json.loads(text))
Action_parse(j) == [action_type |-> j[1], url |-> j[2], value |-> j[3]]

----------------------------------------------------------------------------
(* SQLiteActionRepository *)

Row(a) == [action_hash |-> Action_hash(a), action_json |-> Action_json(a)]

\* a mutant of Repo_init: the table is created anew at every start
Repo_init_fresh(st) == EmptyBag

\* __init__: CREATE TABLE IF NOT EXISTS keeps the rows of an existing table
Repo_init(st) == st

\* a mutant of Repo_add: a plain INSERT into a table without constraints
Repo_add_plain(st, a) == st (+) SetToBag({Row(a)})

\* a mutant of Repo_add: the row is never written
Repo_add_skip(st, a) == st

\* add: INSERT OR IGNORE under PRIMARY KEY action_hash and UNIQUE action_json
Repo_add(st, a) ==
    IF \E r \in BagToSet(st) : r.action_hash = Action_hash(a) \/ r.action_json = Action_json(a)
    THEN st
    ELSE st (+) SetToBag({Row(a)})

\* get: the first row selected by action_hash, or None
Repo_get(st, h) ==
    LET rs == {r \in BagToSet(st) : r.action_hash = h}
    IN IF rs = {} THEN None ELSE Action_parse((CHOOSE r \in rs : TRUE).action_json)

\* number of rows of the table that satisfy P
Count(st, P(_)) ==
    LET rs == {r \in BagToSet(st) : P(r)}
        RECURSIVE Sum(_)
        Sum(S) == IF S = {} THEN 0
                  ELSE LET r == CHOOSE r \in S : TRUE IN CopiesIn(r, st) + Sum(S \ {r})
    IN Sum(rs)

----------------------------------------------------------------------------
(* Session: cookies_are_expired and get_cookies *)

Request(kind, url, jar) == [req |-> kind, url |-> url, cookies |-> jar]

cookies_are_expired(c, t) ==
    LET expires == {c[i] : i \in DOMAIN c} \ {0}
        min_expires == IF expires = {} THEN 0
                       ELSE CHOOSE m \in expires : \A e \in expires : m <= e
    IN min_expires < t

\* what the login request can do: raise, or answer with some cookie jar
\* (no cookie, a cookie without expiry, a cookie that expires right after t)
LoginOutcomes(t) ==
    {[raises |-> TRUE, jar |-> <<>>]}
    \cup {[raises |-> FALSE, jar |-> j] : j \in {<<>>, <<0>>, <<t>>}}

\* get_cookies() under login outcome o: the new global cookies and the
\* requests made
get_cookies(c, t, o) ==
    IF cookies_are_expired(c, t)
    THEN [cookies |-> IF o.raises THEN <<>> ELSE o.jar,
          net |-> <<Request("login", base_url \o "/polka/", <<>>)>>]
    ELSE [cookies |-> c, net |-> <<>>]

----------------------------------------------------------------------------
(* The catalog: entries, links and the feeds a fetch can return *)

Link(href, type, title, rel) == [href |-> href, type |-> type, title |-> title, rel |-> rel]

Entry(text, links, summary, authors) ==
    [text |-> text, links |-> links, summary |-> summary, authors |-> authors]

Author1 == "http://flibusta.is/opds/author/1"
Author11 == "http://flibusta.is/opds/author/11"

CatalogLink == Link(Author1, "application/atom+xml;profile=opds-catalog", "", "related")
EpubLink == Link("http://flibusta.is/b/1/epub", "application/epub+zip", "", "http://opds-spec.org/acquisition/open-access")
HtmlLink == Link("http://flibusta.is/b/1", "text/html", "Kniga na sajte", "alternate")
ThumbLink == Link("http://flibusta.is/i/1/thumb.jpg", "image/jpeg", "", "http://opds-spec.org/image/thumbnail")
StanzaLink == Link("http://flibusta.is/i/1/cover.jpg", "image/jpeg", "", "x-stanza-cover-image")

Shelf == Entry("Strugatsky", <<CatalogLink>>, "", <<>>)
Book == Entry("Roadside Picnic", <<ThumbLink, EpubLink, HtmlLink, StanzaLink>>, "A novel",
              <<"A. Strugatsky", "B. Strugatsky">>)

Feeds == {<<>>, <<Shelf, Book>>}

\* what a GET of a page or a document can do: a non-success status, or a body
FetchOutcomes ==
    {[ok |-> FALSE, entries |-> <<>>]} \cup {[ok |-> TRUE, entries |-> es] : es \in Feeds}

\* get_entries(link) under login outcome o and fetch outcome f
get_entries(link, c, t, o, f) ==
    LET g == get_cookies(c, t, o)
    IN IF g.cookies # <<>>
       THEN [cookies |-> g.cookies,
             net |-> g.net \o <<Request("get", link, g.cookies)>>,
             raised |-> ~f.ok,
             entries |-> IF f.ok THEN f.entries ELSE <<>>]
       ELSE [cookies |-> g.cookies,
             net |-> g.net \o <<Request("parse", link, <<>>)>>,
             raised |-> FALSE,
             entries |-> f.entries]

----------------------------------------------------------------------------
(* The chat transport calls a handler awaits *)

NoToken == <<>>

CallbackButton(label, token) == [text |-> label, callback_data |-> token, url |-> ""]
UrlButton(label, url) == [text |-> label, callback_data |-> NoToken, url |-> url]

Call(op, text, photo, markup, fallback) ==
    [op |-> op, text |-> text, photo |-> photo, markup |-> markup, fallback |-> fallback]

send_message(text, markup) == Call("send_message", text, "", markup, <<>>)
send_photo(photo, caption, markup) == Call("send_photo", caption, photo, markup, <<>>)
send_document(filename) == Call("send_document", filename, "", <<>>, <<>>)
answer == Call("answer", "", "", <<>>, <<>>)

\* the call, with the calls made instead when it raises BadRequest
Try(call, except) == [call EXCEPT !.fallback = except]

\* x or y, on strings
Or(x, y) == IF x # "" THEN x ELSE y

\* the callback_data of the buttons of a keyboard
RECURSIVE RowTokens(_)
RowTokens(row) == IF row = <<>> THEN {}
                  ELSE (IF row[1].callback_data = NoToken THEN {} ELSE {row[1].callback_data})
                       \cup RowTokens(Tail(row))

RECURSIVE KeyboardTokens(_)
KeyboardTokens(kb) == IF kb = <<>> THEN {} ELSE RowTokens(kb[1]) \cup KeyboardTokens(Tail(kb))

\* add every Action of a sequence, in order
RECURSIVE Repo_add_all(_, _)
Repo_add_all(st, as) == IF as = <<>> THEN st ELSE Repo_add_all(Repo_add(st, as[1]), Tail(as))

----------------------------------------------------------------------------
(* The handlers, up to their first await: what is fetched and registered, *)
(* and the transport calls that are then awaited in order.                *)

Result(st, c, net, added, todo, raised, entries) ==
    [store |-> st, cookies |-> c, net |-> net, added |-> added, todo |-> todo,
     raised |-> raised, entries |-> entries]

Raise(st, c, net) == Result(st, c, net, <<>>, <<>>, TRUE, <<>>)

handle_message(text, st, c) ==
    LET message == replace_space(text)
        action_books == Action("search_books", "", message)
        action_authors == Action("search_authors", "", message)
        keyboard == << <<CallbackButton("Poisk po knigam", Action_hash(action_books)),
                         CallbackButton("Poisk po avtoram", Action_hash(action_authors))>> >>
    IN Result(Repo_add_all(st, <<action_books, action_authors>>), c, <<>>,
              <<action_books, action_authors>>,
              <<send_message("Poisk \"" \o text \o "\"", keyboard)>>, FALSE, <<>>)

get_page_url(url, page) ==
    IF startswith(url, "http://flibusta.is/opds/search?")
    THEN (IF page > 0 THEN url \o "&pageNumber=" \o str(page) ELSE url)
    ELSE (IF page > 0 THEN url \o "/" \o str(page) ELSE url)

\* a mutant of search_url: the two search types are swapped
search_url_swapped(action) ==
    IF action.action_type = "search_authors"
    THEN base_url \o "/search?searchType=books&searchTerm=\"" \o action.value \o "\""
    ELSE base_url \o "/search?searchType=authors&searchTerm=\"" \o action.value \o "\""

search_url(action) ==
    IF action.action_type = "search_authors"
    THEN base_url \o "/search?searchType=authors&searchTerm=\"" \o action.value \o "\""
    ELSE IF action.action_type = "search_books"
    THEN base_url \o "/search?searchType=books&searchTerm=\"" \o action.value \o "\""
    ELSE base_url \o "//search?searchTerm=\"" \o action.value \o "\""

\* the entry Actions and button rows made by "for i, entry in enumerate(entries)"
EntryActions(entries, url) == [i \in 1..Len(entries) |-> Action("entry", url, str(i - 1))]

EntryRows(entries, url) ==
    [i \in 1..Len(entries) |->
        <<CallbackButton(entries[i].text, Action_hash(Action("entry", url, str(i - 1))))>>]

handle_search(action, st, c, t, o, f) ==
    LET su == search_url(action)
        url == get_page_url(su, 0)
        g == get_entries(url, c, t, o, f)
        next_page_action == Action("page", su, "1")
        added == EntryActions(g.entries, su) \o <<next_page_action>>
        keyboard == EntryRows(g.entries, su)
                    \o << <<CallbackButton("Vpered", Action_hash(next_page_action))>> >>
    IN IF g.raised THEN Raise(st, g.cookies, g.net)
       ELSE Result(Repo_add_all(st, added), g.cookies, g.net, added,
                   <<send_message("Rezultaty poiska", keyboard), answer>>, FALSE, g.entries)

\* a mutant of get_book_name: the authors are left out of the name
get_book_name_title(entry) == entry.text

get_book_name(entry) ==
    IF entry.authors # <<>> THEN join(entry.authors) \o " - " \o entry.text ELSE entry.text

CatalogTypes == {"application/atom+xml", "application/atom+xml;profile=opds-catalog"}

DownloadTypes == {"application/epub+zip", "application/epub", "application/fb2+zip",
                  "application/pdf", "application/rtf+zip", "application/x-mobipocket-ebook",
                  "application/txt+zip", "application/djvu", "application/html+zip"}

Extension(type) ==
    CASE type \in {"application/epub+zip", "application/epub"} -> "epub"
      [] type = "application/fb2+zip" -> "fb2"
      [] type = "application/pdf" -> "pdf"
      [] type = "application/rtf+zip" -> "zip"
      [] type = "application/x-mobipocket-ebook" -> "mobi"
      [] type = "application/txt+zip" -> "zip"
      [] type = "application/djvu" -> "djvu"
      [] type = "application/html+zip" -> "zip"

FormatLabel(type) ==
    CASE type \in {"application/epub+zip", "application/epub"} -> "epub"
      [] type = "application/fb2+zip" -> "fb2"
      [] type = "application/pdf" -> "pdf"
      [] type = "application/rtf+zip" -> "rtf+zip"
      [] type = "application/x-mobipocket-ebook" -> "mobi"
      [] type = "application/txt+zip" -> "txt+zip"
      [] type = "application/djvu" -> "djvu"
      [] type = "application/html+zip" -> "html+zip"

\* one iteration of "for link in entry.links": the Action added and the row appended
link_case(entry, link) ==
    CASE link.type \in CatalogTypes ->
            LET a == Action("page", link.href, "0")
            IN [added |-> <<a>>, rows |-> << <<CallbackButton(Or(link.title, "..."), Action_hash(a))>> >>]
      [] link.type = "text/html" ->
            [added |-> <<>>, rows |-> << <<UrlButton(Or(link.title, "Sajt"), link.href)>> >>]
      [] link.type \in DownloadTypes ->
            LET a == Action("download", link.href, get_book_name(entry) \o "." \o Extension(link.type))
            IN [added |-> <<a>>,
                rows |-> << <<CallbackButton(Or(link.title, FormatLabel(link.type)), Action_hash(a))>> >>]
      [] OTHER -> [added |-> <<>>, rows |-> <<>>]

RECURSIVE link_actions(_, _)
link_actions(entry, links) ==
    IF links = <<>> THEN <<>>
    ELSE link_case(entry, links[1]).added \o link_actions(entry, Tail(links))

RECURSIVE link_rows(_, _)
link_rows(entry, links) ==
    IF links = <<>> THEN <<>>
    ELSE link_case(entry, links[1]).rows \o link_rows(entry, Tail(links))

\* the dict images after the loop: a later link of the same rel replaces an earlier one
RECURSIVE link_images(_, _)
link_images(links, images) ==
    IF links = <<>> THEN images
    ELSE link_images(Tail(links),
                     IF links[1].type = "image/jpeg"
                     THEN (links[1].rel :> links[1].href) @@ images
                     ELSE images)

images_get(images, rel) == IF rel \in DOMAIN images THEN images[rel] ELSE ""

\* a mutant of cover_image: the spec image is tried before the stanza image
cover_image_spec_first(images) ==
    Or(images_get(images, "http://opds-spec.org/image"),
       Or(images_get(images, "x-stanza-cover-image"),
          Or(images_get(images, "http://opds-spec.org/image/thumbnail"),
             images_get(images, "x-stanza-cover-image-thumbnail"))))

cover_image(images) ==
    Or(images_get(images, "x-stanza-cover-image"),
       Or(images_get(images, "http://opds-spec.org/image"),
          Or(images_get(images, "http://opds-spec.org/image/thumbnail"),
             images_get(images, "x-stanza-cover-image-thumbnail"))))

max_length == 4096
caption_limit == 1024

\* a mutant of Chunks: the slices are one character short, text[i:i + n - 1]
RECURSIVE Chunks_short(_, _)
Chunks_short(text, n) ==
    IF Len(text) = 0 THEN <<>>
    ELSE IF Len(text) < n THEN <<text>>
    ELSE <<SubSeq(text, 1, n - 1)>> \o Chunks_short(SubSeq(text, n + 1, Len(text)), n)

\* [text[i:i + n] for i in range(0, len(text), n)]
RECURSIVE Chunks(_, _)
Chunks(text, n) ==
    IF Len(text) = 0 THEN <<>>
    ELSE IF Len(text) <= n THEN <<text>>
    ELSE <<SubSeq(text, 1, n)>> \o Chunks(SubSeq(text, n + 1, Len(text)), n)

\* the chunked sends: the buttons go with the last chunk only
chunk_sends(text, markup) ==
    LET messages == Chunks(text, max_length)
    IN [i \in 1..Len(messages) |->
            send_message(Or(messages[i], "..."), IF i = Len(messages) THEN markup ELSE <<>>)]

display_text(entry) ==
    entry.text \o "\n" \o (IF entry.authors # <<>> THEN join(entry.authors) ELSE "")
               \o "\n\n" \o entry.summary

entry_sends(entry, image, markup) ==
    LET text == display_text(entry)
    IN IF image # ""
       THEN IF Len(text) < caption_limit
            THEN <<Try(send_photo(image, text, markup),
                       <<send_photo(image, "", <<>>)>> \o chunk_sends(text, markup))>>
            ELSE <<send_photo(image, "", <<>>)>> \o chunk_sends(text, markup)
       ELSE <<Try(send_message(Or(text, "..."), markup), chunk_sends(text, markup))>>

\* a mutant of handle_entry: an index past the end shows the last entry
handle_entry_clamped(action, st, c, t, o, f) ==
    LET g == get_entries(action.url, c, t, o, f)
        index == IF int(action.value) >= Len(g.entries) THEN Len(g.entries) - 1
                 ELSE int(action.value)
    IN IF g.raised THEN Raise(st, g.cookies, g.net)
       ELSE IF index < 0 THEN [Raise(st, g.cookies, g.net) EXCEPT !.entries = g.entries]
       ELSE LET entry == g.entries[index + 1]
                added == link_actions(entry, entry.links)
                keyboard == link_rows(entry, entry.links)
                image == cover_image(link_images(entry.links, <<>>))
            IN Result(Repo_add_all(st, added), g.cookies, g.net, added,
                      entry_sends(entry, image, keyboard) \o <<answer>>, FALSE, g.entries)

\* entries[int(action.value)] raises IndexError past the end of the list
handle_entry(action, st, c, t, o, f) ==
    LET g == get_entries(action.url, c, t, o, f)
        index == int(action.value)
    IN IF g.raised THEN Raise(st, g.cookies, g.net)
       ELSE IF index >= Len(g.entries)
       THEN [Raise(st, g.cookies, g.net) EXCEPT !.entries = g.entries]
       ELSE LET entry == g.entries[index + 1]
                added == link_actions(entry, entry.links)
                keyboard == link_rows(entry, entry.links)
                image == cover_image(link_images(entry.links, <<>>))
            IN Result(Repo_add_all(st, added), g.cookies, g.net, added,
                      entry_sends(entry, image, keyboard) \o <<answer>>, FALSE, g.entries)

\* a mutant of page_controls: "back" is offered on page 0 as well
page_controls_back0(action, entries) ==
    LET n == int(action.value)
    IN (IF n >= 0
        THEN <<[label |-> "Nazad", action |-> Action("page", action.url, str(IF n > 0 THEN n - 1 ELSE 0))]>>
        ELSE <<>>)
       \o (IF entries # <<>>
           THEN <<[label |-> "Vpered", action |-> Action("page", action.url, str(n + 1))]>>
           ELSE <<>>)

\* the controls appended to control_keyboard, in order, each with its Action
page_controls(action, entries) ==
    LET n == int(action.value)
    IN (IF n > 0
        THEN <<[label |-> "Nazad", action |-> Action("page", action.url, str(n - 1))]>>
        ELSE <<>>)
       \o (IF entries # <<>>
           THEN <<[label |-> "Vpered", action |-> Action("page", action.url, str(n + 1))]>>
           ELSE <<>>)

\* a mutant of handle_page: the entry Actions carry the base url, not the
\* url of the page fetched
handle_page_base(action, st, c, t, o, f) ==
    LET page_url == get_page_url(action.url, int(action.value))
        g == get_entries(page_url, c, t, o, f)
        controls == page_controls(action, g.entries)
        control_keyboard == [i \in 1..Len(controls) |->
                                CallbackButton(controls[i].label, Action_hash(controls[i].action))]
        added == EntryActions(g.entries, action.url)
                 \o [i \in 1..Len(controls) |-> controls[i].action]
        keyboard == EntryRows(g.entries, action.url)
                    \o (IF control_keyboard # <<>> THEN <<control_keyboard>> ELSE <<>>)
    IN IF g.raised THEN Raise(st, g.cookies, g.net)
       ELSE Result(Repo_add_all(st, added), g.cookies, g.net, added,
                   <<send_message("Rezultaty poiska", keyboard), answer>>, FALSE, g.entries)

handle_page(action, st, c, t, o, f) ==
    LET page_url == get_page_url(action.url, int(action.value))
        g == get_entries(page_url, c, t, o, f)
        controls == page_controls(action, g.entries)
        control_keyboard == [i \in 1..Len(controls) |->
                                CallbackButton(controls[i].label, Action_hash(controls[i].action))]
        added == EntryActions(g.entries, page_url)
                 \o [i \in 1..Len(controls) |-> controls[i].action]
        keyboard == EntryRows(g.entries, page_url)
                    \o (IF control_keyboard # <<>> THEN <<control_keyboard>> ELSE <<>>)
    IN IF g.raised THEN Raise(st, g.cookies, g.net)
       ELSE Result(Repo_add_all(st, added), g.cookies, g.net, added,
                   <<send_message("Rezultaty poiska", keyboard), answer>>, FALSE, g.entries)

handle_download(action, st, c, t, o, f) ==
    LET g == get_cookies(c, t, o)
        net == g.net \o <<Request("get", action.url, g.cookies)>>
    IN IF ~f.ok THEN Raise(st, g.cookies, net)
       ELSE Result(st, g.cookies, net, <<>>,
                   <<send_document(Or(action.value, "book")), answer>>, FALSE, <<>>)

\* handle_callback: handle_search answers the query itself and the handler
\* answers it again after the match
handle_callback(data, st, c, t, o, f) ==
    LET action == Repo_get(st, data)
    IN IF action = None THEN Raise(st, c, <<>>)
       ELSE CASE action.action_type \in {"search_books", "search_authors"} ->
                    LET r == handle_search(action, st, c, t, o, f)
                    IN IF r.raised THEN r ELSE [r EXCEPT !.todo = @ \o <<answer>>]
              [] action.action_type = "entry" -> handle_entry(action, st, c, t, o, f)
              [] action.action_type = "page" -> handle_page(action, st, c, t, o, f)
              [] action.action_type = "download" -> handle_download(action, st, c, t, o, f)
              [] OTHER -> Result(st, c, <<>>, <<>>, <<answer>>, FALSE, <<>>)

StartUrl == "http://flibusta.is/opds"

handle_start(st, c, t, o, f) ==
    LET g == get_entries(StartUrl, c, t, o, f)
        added == EntryActions(g.entries, StartUrl)
        keyboard == EntryRows(g.entries, StartUrl)
    IN IF g.raised THEN Raise(st, g.cookies, g.net)
       ELSE Result(Repo_add_all(st, added), g.cookies, g.net, added,
                   <<send_message("Vyberite dejstvie ili otpravte tekst dlya poiska po avtoram i knigam",
                                  keyboard)>>, FALSE, g.entries)

----------------------------------------------------------------------------
(* The repository in isolation: any sequence of add, get and restart over   *)
(* Actions the handlers produce.  Entry 10 of a listing is registered when *)
(* its page has eleven entries, page 10 after ten presses of "next".       *)

RegistryActions ==
    {Action(t, u, v) : t \in {"entry", "page"}, u \in {Author1, Author11}, v \in {"0", "10"}}
    \cup {Action("search_books", "", "Dune")}

ForeignToken == sha256("foreign")

IdleTask == [pc |-> "idle", handler |-> "none", action |-> None, data |-> <<>>,
             input |-> "", net |-> <<>>, fetch |-> "none", added |-> <<>>, out |-> <<>>,
             todo |-> <<>>, caught |-> FALSE, entries |-> <<>>]

Tasks == 1..NumTasks

RegInit ==
    /\ store = EmptyBag
    /\ cookies = <<>>
    /\ now = 1
    /\ task = [t \in Tasks |-> IdleTask]
    /\ shown = {}
    /\ updates = 0
    /\ reg = [op |-> "init", action |-> None, token |-> <<>>, before |-> EmptyBag, result |-> None]

RegAdd(a) ==
    /\ store' = Repo_add(store, a)
    /\ reg' = [op |-> "add", action |-> a, token |-> Action_hash(a), before |-> store, result |-> None]
    /\ UNCHANGED <<cookies, now, task, shown, updates>>

RegGet(h) ==
    /\ reg' = [op |-> "get", action |-> None, token |-> h, before |-> store, result |-> Repo_get(store, h)]
    /\ UNCHANGED <<store, cookies, now, task, shown, updates>>

RegRestart ==
    /\ store' = Repo_init(store)
    /\ reg' = [op |-> "init", action |-> None, token |-> <<>>, before |-> store, result |-> None]
    /\ UNCHANGED <<cookies, now, task, shown, updates>>

RegNext ==
    \/ \E a \in RegistryActions : RegAdd(a)
    \/ \E a \in RegistryActions : RegGet(Action_hash(a))
    \/ RegGet(ForeignToken)
    \/ RegRestart

SpecRegistry == RegInit /\ [][RegNext]_vars

----------------------------------------------------------------------------
(* The bot: updates are dispatched to handler tasks, which run up to an    *)
(* await, and are resumed when the awaited transport call returns.         *)

Texts == {"Dune", "Roadside Picnic"}

Init ==
    /\ store = Repo_init(EmptyBag)
    /\ cookies = <<>>
    /\ now = 1
    /\ task = [t \in Tasks |-> IdleTask]
    /\ shown = {}
    /\ updates = 0
    /\ reg = [op |-> "init", action |-> None, token |-> <<>>, before |-> EmptyBag, result |-> None]

\* run_polling takes the next update when the handler of the last one has returned
CanDispatch(t) ==
    /\ updates < MaxUpdates
    /\ t = 1
    /\ \A u \in Tasks : task[u].pc # "run"

\* handlers as independent tasks: an update goes to the first task that is
\* not running a handler, while others wait in an await
CanOverlap(t) ==
    /\ updates < MaxConcurrentUpdates
    /\ task[t].pc # "run"
    /\ \A u \in Tasks : u < t => task[u].pc = "run"

\* the record of a finished handler run is kept for one step only
Running(tk) == [u \in Tasks |-> IF tk[u].pc = "run" THEN tk[u] ELSE IdleTask]

\* how the page or document request of a run ended, if it made one
FetchStatus(net, f) ==
    IF \A i \in DOMAIN net : net[i].req = "login" THEN "none"
    ELSE IF f.ok THEN "ok" ELSE "error"

\* the handler has run up to its first await, or has raised
Run(t, handler, input, data, action, f, r) ==
    /\ store' = r.store
    /\ cookies' = r.cookies
    /\ task' = [Running(task) EXCEPT ![t] =
                    [pc |-> IF r.raised THEN "failed" ELSE "run", handler |-> handler,
                     action |-> action, data |-> data, input |-> input, net |-> r.net,
                     fetch |-> FetchStatus(r.net, f),
                     added |-> r.added, out |-> <<>>, todo |-> r.todo, caught |-> FALSE,
                     entries |-> r.entries]]

Begin(t, handler, input, data, action, f, r) ==
    /\ Run(t, handler, input, data, action, f, r)
    /\ updates' = updates + 1
    /\ UNCHANGED <<shown, reg>>

HandleMessage(t, dispatch) ==
    \E text \in Texts :
        /\ dispatch
        /\ Begin(t, "handle_message", text, NoToken, None, [ok |-> TRUE, entries |-> <<>>],
                 handle_message(text, store, cookies))
        /\ now' = now

\* time.time() is read once, by get_cookies, and never runs backwards
HandleStart(t, dispatch) ==
    \E clock \in now..MaxTime, f \in FetchOutcomes : \E o \in LoginOutcomes(clock) :
        /\ dispatch
        /\ Begin(t, "handle_start", "", NoToken, None, f, handle_start(store, cookies, clock, o, f))
        /\ now' = clock

HandleCallback(t, dispatch) ==
    \E data \in shown \cup {ForeignToken}, clock \in now..MaxTime, f \in FetchOutcomes :
      \E o \in LoginOutcomes(clock) :
        /\ dispatch
        /\ Begin(t, "handle_callback", "", data, Repo_get(store, data), f,
                 handle_callback(data, store, cookies, clock, o, f))
        /\ now' = clock

\* the awaited transport call returns, or raises BadRequest
Transport(t) ==
    /\ task[t].pc = "run"
    /\ task[t].todo # <<>>
    /\ LET call == Head(task[t].todo)
           rest == Tail(task[t].todo)
       IN \/ /\ task' = [Running(task) EXCEPT
                                     ![t].out = Append(@, [call EXCEPT !.fallback = <<>>]),
                                     ![t].todo = rest,
                                     ![t].pc = IF rest = <<>> THEN "done" ELSE "run"]
             /\ shown' = shown \cup KeyboardTokens(call.markup)
          \/ /\ call.fallback # <<>>
             /\ task' = [Running(task) EXCEPT ![t].todo = call.fallback \o rest,
                                               ![t].caught = TRUE]
             /\ shown' = shown
          \/ /\ call.fallback = <<>>
             /\ task' = [Running(task) EXCEPT ![t].todo = <<>>, ![t].pc = "failed"]
             /\ shown' = shown
    /\ UNCHANGED <<store, cookies, now, updates, reg>>

\* the process is restarted: books.db stays, the globals are initialised anew
Restart ==
    /\ store' = Repo_init(store)
    /\ cookies' = <<>>
    /\ task' = [t \in Tasks |-> IdleTask]
    /\ UNCHANGED <<now, shown, updates, reg>>

\* the bot as main() runs it: one update at a time
Next ==
    \/ \E t \in Tasks : HandleMessage(t, CanDispatch(t))
    \/ \E t \in Tasks : HandleStart(t, CanDispatch(t))
    \/ \E t \in Tasks : HandleCallback(t, CanDispatch(t))
    \/ \E t \in Tasks : Transport(t)
    \/ Restart

Spec == Init /\ [][Next]_vars

\* the bot with handlers that overlap at their awaits
NextConcurrent ==
    \/ \E t \in Tasks : HandleMessage(t, CanOverlap(t))
    \/ \E t \in Tasks : HandleStart(t, CanOverlap(t))
    \/ \E t \in Tasks : HandleCallback(t, CanOverlap(t))
    \/ \E t \in Tasks : Transport(t)
    \/ Restart

SpecConcurrent == Init /\ [][NextConcurrent]_vars

----------------------------------------------------------------------------
(* The bot with the blocking requests made visible.  requests.get and      *)
(* feedparser.parse are synchronous calls made inside the coroutines: the  *)
(* thread of the event loop stays in the call until it returns, and the    *)
(* loop switches coroutines at an await only.  Updates are taken as        *)
(* independent tasks here, as in SpecConcurrent.                           *)

\* no coroutine is inside a blocking request
LoopFree == \A u \in Tasks : task[u].pc # "blocked"

\* handle_start has called get_entries: the loop thread is in the request
StartRequest(t) ==
    /\ LoopFree
    /\ CanOverlap(t)
    /\ task' = [Running(task) EXCEPT ![t] =
                    [IdleTask EXCEPT !.pc = "blocked", !.handler = "handle_start"]]
    /\ updates' = updates + 1
    /\ UNCHANGED <<store, cookies, now, shown, reg>>

\* handle_callback has resolved the token and called get_entries or
\* requests.get: the loop thread is in the request
CallbackRequest(t) ==
    \E data \in shown :
        /\ LoopFree
        /\ CanOverlap(t)
        /\ Repo_get(store, data) # None
        /\ task' = [Running(task) EXCEPT ![t] =
                        [IdleTask EXCEPT !.pc = "blocked", !.handler = "handle_callback",
                                         !.data = data, !.action = Repo_get(store, data)]]
        /\ updates' = updates + 1
        /\ UNCHANGED <<store, cookies, now, shown, reg>>

\* the requests of the blocked handler return and it runs on to its first await
RequestReturns(t) ==
    \E clock \in now..MaxTime, f \in FetchOutcomes : \E o \in LoginOutcomes(clock) :
        /\ task[t].pc = "blocked"
        /\ IF task[t].handler = "handle_start"
           THEN Run(t, "handle_start", "", NoToken, None, f,
                    handle_start(store, cookies, clock, o, f))
           ELSE Run(t, "handle_callback", "", task[t].data, task[t].action, f,
                    handle_callback(task[t].data, store, cookies, clock, o, f))
        /\ now' = clock
        /\ UNCHANGED <<shown, updates, reg>>

\* a callback whose token does not resolve raises before any request
CallbackMiss(t) ==
    /\ LoopFree
    /\ CanOverlap(t)
    /\ Begin(t, "handle_callback", "", ForeignToken, Repo_get(store, ForeignToken),
             [ok |-> TRUE, entries |-> <<>>],
             handle_callback(ForeignToken, store, cookies, now, [raises |-> TRUE, jar |-> <<>>],
                             [ok |-> TRUE, entries |-> <<>>]))
    /\ now' = now

NextBlocking ==
    \/ \E t \in Tasks : HandleMessage(t, LoopFree /\ CanOverlap(t))
    \/ \E t \in Tasks : StartRequest(t)
    \/ \E t \in Tasks : CallbackRequest(t)
    \/ \E t \in Tasks : CallbackMiss(t)
    \/ \E t \in Tasks : RequestReturns(t)
    \/ \E t \in Tasks : LoopFree /\ Transport(t)
    \/ Restart

SpecBlocking == Init /\ [][NextBlocking]_vars

----------------------------------------------------------------------------
(* The entry branch on long texts: /start shows the entry buttons, and the *)
(* feed fetched at a press holds one entry whose display text has a length *)
(* around the caption limit and around multiples of max_length.            *)

MaxEntryUpdates == 2         \* updates handled: /start, then presses

\* s repeated k times
RECURSIVE Repeat(_, _)
Repeat(s, k) == IF k = 0 THEN ""
                ELSE IF k % 2 = 0 THEN LET h == Repeat(s, k \div 2) IN h \o h
                ELSE s \o Repeat(s, k - 1)

\* a summary of n characters
Filler(n) == SubSeq(Repeat("0123456789", (n \div 10) + 1), 1, n)

LongAuthors == <<"A. Strugatsky", "B. Strugatsky">>

\* an entry whose display text has length L
LongEntry(L, links) ==
    LET head == Len("Roadside Picnic") + 1 + Len(join(LongAuthors)) + 2
    IN Entry("Roadside Picnic", links, Filler(L - head), LongAuthors)

TextLengths == {50, 1023, 1024, 4096, 4097, 8192, 8193}

LongEntries == {LongEntry(L, links) : L \in TextLengths, links \in {<<EpubLink>>, <<StanzaLink, EpubLink>>}}

LongFetchOutcomes == {[ok |-> TRUE, entries |-> <<e>>] : e \in LongEntries}

EntryDispatch(t) ==
    /\ updates < MaxEntryUpdates
    /\ t = 1
    /\ \A u \in Tasks : task[u].pc # "run"

\* a press of a button that was shown, while the feed holds a long entry
PressLong(t) ==
    \E data \in shown, clock \in now..MaxTime, f \in LongFetchOutcomes :
      \E o \in LoginOutcomes(clock) :
        /\ EntryDispatch(t)
        /\ Begin(t, "handle_callback", "", data, Repo_get(store, data), f,
                 handle_callback(data, store, cookies, clock, o, f))
        /\ now' = clock

NextEntry ==
    \/ \E t \in Tasks : HandleStart(t, EntryDispatch(t))
    \/ \E t \in Tasks : PressLong(t)
    \/ \E t \in Tasks : Transport(t)

SpecEntry == Init /\ [][NextEntry]_vars

----------------------------------------------------------------------------
(* The entry branch on one entry, for every choice of its links: the       *)
(* entry is drawn at the start and handle_callback's entry branch is run   *)
(* on a feed that holds it.                                                *)

ImageRels == {"x-stanza-cover-image", "http://opds-spec.org/image",
              "http://opds-spec.org/image/thumbnail", "x-stanza-cover-image-thumbnail",
              "related"}

\* the image link of a relation; its href tells the relation
ImageLink(rel) == Link("http://flibusta.is/i/1/" \o rel, "image/jpeg", "", rel)

\* every sequence of image links with no relation twice
ImageLinkSeqs ==
    LET seqs == UNION {[1..k -> ImageRels] : k \in 0..Cardinality(ImageRels)}
    IN {[i \in DOMAIN s |-> ImageLink(s[i])] :
            s \in {q \in seqs : \A i \in DOMAIN q, j \in DOMAIN q : q[i] = q[j] => i = j}}

\* one link of every type the branch knows, and one it ignores
TypedLinks ==
    <<Link("http://flibusta.is/b/1/epub", "application/epub+zip", "", ""),
      Link("http://flibusta.is/b/1/epub2", "application/epub", "", ""),
      Link("http://flibusta.is/b/1/fb2", "application/fb2+zip", "", ""),
      Link("http://flibusta.is/b/1/pdf", "application/pdf", "", ""),
      Link("http://flibusta.is/b/1/rtf", "application/rtf+zip", "", ""),
      Link("http://flibusta.is/b/1/mobi", "application/x-mobipocket-ebook", "", ""),
      Link("http://flibusta.is/b/1/txt", "application/txt+zip", "", ""),
      Link("http://flibusta.is/b/1/djvu", "application/djvu", "", ""),
      Link("http://flibusta.is/b/1/html", "application/html+zip", "", ""),
      Link("http://flibusta.is/b/1/doc", "application/msword", "", ""),
      HtmlLink, CatalogLink>>

AuthorLists == {<<>>, <<"A. Strugatsky">>, <<"A. Strugatsky", "B. Strugatsky">>}

LinkEntries ==
    {Entry("Roadside Picnic", links, "A novel", authors) :
        authors \in AuthorLists,
        links \in {TypedLinks \o images : images \in ImageLinkSeqs}
                  \cup {images \o TypedLinks : images \in ImageLinkSeqs}}

LinksInit ==
    /\ store = Repo_init(EmptyBag)
    /\ cookies = <<>>
    /\ now = 1
    /\ task = [t \in Tasks |-> IdleTask]
    /\ shown = {}
    /\ updates = 0
    /\ reg \in {[op |-> "feed", entry |-> e] : e \in LinkEntries}

\* the entry branch of handle_callback, for the Action of entry 0 of the feed
OpenEntry ==
    \E clock \in now..MaxTime : \E o \in LoginOutcomes(clock) :
        LET action == Action("entry", StartUrl, "0")
            f == [ok |-> TRUE, entries |-> <<reg.entry>>]
            r == handle_entry(action, store, cookies, clock, o, f)
        IN /\ reg.op = "feed"
           /\ store' = r.store
           /\ cookies' = r.cookies
           /\ now' = clock
           /\ reg' = [op |-> "opened", entry |-> reg.entry, added |-> r.added, todo |-> r.todo]
           /\ UNCHANGED <<task, shown, updates>>

SpecLinks == LinksInit /\ [][OpenEntry]_vars

----------------------------------------------------------------------------
(* The Session in isolation: page fetches and document fetches one after   *)
(* the other, while the clock advances.                                    *)

\* the cookie jars a login response can set at time t: no cookie, a cookie
\* without expiry, cookies that expire at t or after it, and jars of two
SessionJars(t) == {<<>>, <<0>>, <<t>>, <<t + 1>>, <<0, t + 1>>, <<t + 1, t>>}

\* what the login request can do: raise, or answer with a status and a jar.
\* LoginOutcomes are these without the status, which get_cookies never reads.
SessionLoginOutcomes(t) ==
    {[raises |-> TRUE, status |-> 0, jar |-> <<>>]}
    \cup {[raises |-> FALSE, status |-> s, jar |-> j] : s \in {200, 403}, j \in SessionJars(t)}

SessionLog(op, url, o, f, r) ==
    [op |-> op, url |-> url, before |-> cookies, clock |-> now, login |-> o, fetch |-> f,
     net |-> r.net, raised |-> r.raised, entries |-> r.entries]

\* get_entries(link)
FetchPage(link) ==
    \E o \in SessionLoginOutcomes(now), f \in FetchOutcomes :
        LET g == get_entries(link, cookies, now, o, f)
        IN /\ cookies' = g.cookies
           /\ reg' = SessionLog("fetch_page", link, o, f, g)
           /\ UNCHANGED <<store, now, task, shown, updates>>

\* the fetch of the download branch
FetchDocument(action) ==
    \E o \in SessionLoginOutcomes(now), f \in FetchOutcomes :
        LET r == handle_download(action, store, cookies, now, o, f)
        IN /\ cookies' = r.cookies
           /\ reg' = SessionLog("fetch_document", action.url, o, f, r)
           /\ UNCHANGED <<store, now, task, shown, updates>>

\* time.time() advances
SessionTick ==
    /\ now < MaxTime
    /\ now' = now + 1
    /\ UNCHANGED <<store, cookies, task, shown, updates, reg>>

\* the process is restarted: cookies = []
SessionRestart ==
    /\ cookies' = <<>>
    /\ reg' = [op |-> "restart", before |-> cookies, clock |-> now]
    /\ UNCHANGED <<store, now, task, shown, updates>>

SessionNext ==
    \/ FetchPage(StartUrl)
    \/ FetchDocument(Action("download", EpubLink.href, "Roadside Picnic.epub"))
    \/ SessionTick
    \/ SessionRestart

SpecSession == Init /\ [][SessionNext]_vars

----------------------------------------------------------------------------
(* Claims about the repository in isolation, checked under SpecRegistry *)

\* C1: after add(A), get(hash(A)) returns an Action equal to A in all three
\* fields, whatever was registered before.
RoundTrip ==
    reg.op = "add" => Repo_get(store, Action_hash(reg.action)) = reg.action

\* C2: two Actions that differ in a field have different tokens: when A is
\* added, no record of another Action in the store is keyed by A's token.
TokenUniqueness ==
    reg.op = "add" =>
        \A r \in BagToSet(reg.before) :
            r.action_json # Action_json(reg.action) => r.action_hash # Action_hash(reg.action)

\* C3: after add(A), a second add(A) yields the same token and changes
\* nothing in the store, and the store holds exactly one record for A.
IdempotentRegistration ==
    reg.op = "add" =>
        /\ Action_hash(reg.action) = reg.token
        /\ Repo_add(store, reg.action) = store
        /\ Count(store, LAMBDA r : r.action_json = Action_json(reg.action)) = 1

----------------------------------------------------------------------------
(* Claims about the handlers *)

\* the transport calls of a handler run, delivered and pending
Calls(t) == task[t].out \o task[t].todo

\* every token a run puts on a button, whichever way its sends go
RECURSIVE CallTokens(_)
CallTokens(calls) ==
    IF calls = <<>> THEN {}
    ELSE KeyboardTokens(calls[1].markup) \cup CallTokens(calls[1].fallback)
         \cup CallTokens(Tail(calls))

\* the run of task t has registered its Actions and has not raised
Registered(t) == task[t].pc \in {"run", "done"}

\* the page fetches of a run: authenticated GETs and direct feed parses
PageFetches(t) == SelectSeq(task[t].net, LAMBDA r : r.req \in {"get", "parse"})

\* C4: when two handler runs that overlap have registered the same Action,
\* the store holds exactly one record under its token and never two records
\* of the Action, no record is there twice, and both runs carry that one
\* token on their buttons.
ConcurrentRegistration ==
    /\ \A r \in BagToSet(store) : CopiesIn(r, store) = 1
    /\ \A t1 \in Tasks, t2 \in Tasks :
        (t1 # t2 /\ Registered(t1) /\ Registered(t2)) =>
            \A i \in DOMAIN task[t1].added, j \in DOMAIN task[t2].added :
                task[t1].added[i] = task[t2].added[j] =>
                    LET A == task[t1].added[i]
                        k1 == {k \in CallTokens(Calls(t1)) : k = Action_hash(A)}
                        k2 == {k \in CallTokens(Calls(t2)) : k = Action_hash(A)}
                    IN /\ k1 # {}
                       /\ k1 = k2
                       /\ Count(store, LAMBDA r : r.action_hash \in k1) = 1
                       /\ Count(store, LAMBDA r : r.action_json = Action_json(A)) <= 1

\* C4 witness: two runs are in flight at once, both have registered the same
\* Action and neither has sent its message yet.
ConcurrentRegistrationWitness ==
    \E t1 \in Tasks, t2 \in Tasks :
        /\ t1 # t2
        /\ task[t1].pc = "run" /\ task[t2].pc = "run"
        /\ task[t1].out = <<>> /\ task[t2].out = <<>>
        /\ task[t1].added # <<>>
        /\ task[t1].added = task[t2].added

\* C5: a token that resolves to an Action resolves to the same Action after
\* every step, handler runs and restarts included; no record is changed or
\* removed.
TokenStability ==
    [][\A r \in BagToSet(store) :
          /\ CopiesIn(r, store') = CopiesIn(r, store)
          /\ Repo_get(store', r.action_hash) = Repo_get(store, r.action_hash)]_vars

\* C5 witness: the process has been restarted while tokens were issued and
\* shown, and they still resolve.
TokenStabilityWitness ==
    /\ updates > 0
    /\ \A t \in Tasks : task[t] = IdleTask
    /\ shown # {}
    /\ \A k \in shown : Repo_get(store, k) # None

\* C6: every token on a button of a delivered message, and every token on a
\* button of a message a handler is about to send, has a record in the store.
RegisteredBeforeShown ==
    /\ \A k \in shown : Count(store, LAMBDA r : r.action_hash = k) >= 1
    /\ \A t \in Tasks :
          \A k \in CallTokens(Calls(t)) : Count(store, LAMBDA r : r.action_hash = k) >= 1

\* C6 witness: the page branch has delivered a message whose buttons carry
\* entry tokens and control tokens.
RegisteredBeforeShownWitness ==
    \E t \in Tasks :
        /\ task[t].pc = "done"
        /\ task[t].handler = "handle_callback"
        /\ task[t].action # None
        /\ task[t].action.action_type = "page"
        /\ task[t].entries # <<>>
        /\ KeyboardTokens(task[t].out[1].markup) \subseteq shown
        /\ Cardinality(KeyboardTokens(task[t].out[1].markup)) >= 3

\* value is text with every space replaced by "%20", read off both strings
RECURSIVE SpacesEncoded(_, _)
SpacesEncoded(text, value) ==
    IF text = "" THEN value = ""
    ELSE IF Head(text) = " "
         THEN /\ Len(value) >= 3
              /\ SubSeq(value, 1, 3) = "%20"
              /\ SpacesEncoded(Tail(text), SubSeq(value, 4, Len(value)))
         ELSE /\ Len(value) >= 1
              /\ Head(value) = Head(text)
              /\ SpacesEncoded(Tail(text), Tail(value))

MessageRun(t) == task[t].handler = "handle_message" /\ task[t].pc \in {"run", "done", "failed"}

\* what C7 says of a handle_message run, with P(text, value) the relation
\* between the message text and the parameter of the two Actions
FreeTextRun(t, P(_, _)) ==
    LET added == task[t].added
        calls == Calls(t)
    IN /\ Len(added) = 2
       /\ added[1].action_type = "search_books" /\ added[2].action_type = "search_authors"
       /\ added[1].url = "" /\ added[2].url = ""
       /\ P(task[t].input, added[1].value) /\ P(task[t].input, added[2].value)
       /\ task[t].net = <<>>
       /\ task[t].pc # "failed" =>
            /\ Len(calls) = 1
            /\ calls[1].op = "send_message"
            /\ Len(calls[1].markup) = 1
            /\ Len(calls[1].markup[1]) = 2
            /\ calls[1].markup[1][1].callback_data = Action_hash(added[1])
            /\ calls[1].markup[1][2].callback_data = Action_hash(added[2])

\* C7 as stated: both Actions carry the raw message text unchanged.
FreeTextRaw ==
    \A t \in Tasks : MessageRun(t) => FreeTextRun(t, LAMBDA text, value : value = text)

\* C7 amended: handle_message registers exactly two Actions, a title search
\* and an author search, both with an empty url and the message text with
\* every space replaced by "%20"; it sends one message with both buttons,
\* makes no network call, and leaves the Session as it was.
FreeTextEntryPoint ==
    /\ [](\A t \in Tasks : MessageRun(t) => FreeTextRun(t, SpacesEncoded))
    /\ [][\A t \in Tasks :
            (task'[t].handler = "handle_message" /\ updates' = updates + 1 /\ task'[t].out = <<>>
             /\ task'[t].pc = "run")
            => (cookies' = cookies /\ now' = now)]_vars

\* C7 witness: a message with a space in it has been handled and its one
\* message delivered.
FreeTextEntryPointWitness ==
    \E t \in Tasks :
        /\ task[t].handler = "handle_message"
        /\ task[t].pc = "done"
        /\ task[t].input = "Roadside Picnic"
        /\ task[t].added[1].value = "Roadside%20Picnic"
        /\ Len(task[t].out) = 1
        /\ Action_hash(task[t].added[1]) \in shown

SearchRun(t) ==
    /\ task[t].handler = "handle_callback"
    /\ task[t].action # None
    /\ task[t].action.action_type \in {"search_books", "search_authors"}

\* the search URL of the claim, written out for each kind
ExpectedSearchUrl(a) ==
    IF a.action_type = "search_books"
    THEN "https://flibusta.is/opds/search?searchType=books&searchTerm=\"" \o a.value \o "\""
    ELSE "https://flibusta.is/opds/search?searchType=authors&searchTerm=\"" \o a.value \o "\""

\* C8: a search press makes exactly one page fetch, of page 0 of the search
\* URL of its kind, and, when the fetch returns, registers one entry Action
\* per returned entry (url the search URL, value the index) followed by one
\* page Action for page 1 of the same URL, and nothing else; when the fetch
\* raises it registers nothing.
SearchPress ==
    \A t \in Tasks :
        (SearchRun(t) /\ task[t].pc # "idle") =>
            LET su == ExpectedSearchUrl(task[t].action)
                n == Len(task[t].entries)
            IN /\ Len(PageFetches(t)) = 1
               /\ PageFetches(t)[1].url = su
               /\ Registered(t) => task[t].added # <<>>
               /\ task[t].added # <<>> =>
                    /\ Len(task[t].added) = n + 1
                    /\ \A i \in 1..n : task[t].added[i] = Action("entry", su, str(i - 1))
                    /\ task[t].added[n + 1] = Action("page", su, "1")

\* C8 witness: a title search has returned two entries and its message is out.
SearchPressWitness ==
    \E t \in Tasks :
        /\ SearchRun(t)
        /\ task[t].pc = "done"
        /\ task[t].action.action_type = "search_books"
        /\ Len(task[t].entries) = 2
        /\ Len(task[t].added) = 3

PageRun(t) ==
    /\ task[t].handler = "handle_callback"
    /\ task[t].action # None
    /\ task[t].action.action_type = "page"

\* C9: the page branch registers and shows "back" (the page before) iff the
\* page number is above 0 and "next" (the page after) iff the fetch returned
\* an entry; they share one row after the entry rows, "back" first.
PaginationBoundary ==
    \A t \in Tasks :
        (PageRun(t) /\ Registered(t)) =>
            LET a == task[t].action
                n == int(a.value)
                m == Len(task[t].entries)
                back == IF n > 0 THEN <<Action("page", a.url, str(n - 1))>> ELSE <<>>
                next == IF m > 0 THEN <<Action("page", a.url, str(n + 1))>> ELSE <<>>
                controls == back \o next
                keyboard == Calls(t)[1].markup
            IN /\ SubSeq(task[t].added, m + 1, Len(task[t].added)) = controls
               /\ Len(keyboard) = m + (IF controls = <<>> THEN 0 ELSE 1)
               /\ controls # <<>> =>
                    /\ Len(keyboard[m + 1]) = Len(controls)
                    /\ \A i \in 1..Len(controls) :
                          /\ keyboard[m + 1][i].callback_data = Action_hash(controls[i])
                          /\ keyboard[m + 1][i].text =
                                (IF n > 0 /\ i = 1 THEN "Nazad" ELSE "Vpered")

\* C9 witness: page 1 of a listing returned entries, so both controls are shown.
PaginationBoundaryWitness ==
    \E t \in Tasks :
        /\ PageRun(t)
        /\ task[t].pc = "done"
        /\ int(task[t].action.value) > 0
        /\ task[t].entries # <<>>
        /\ Len(task[t].out[1].markup[Len(task[t].entries) + 1]) = 2

\* C10: the URL fetched for page N of a base URL is the base when N = 0, the
\* base with "&pageNumber=N" when N > 0 and the base is a search URL, such as
\* the search URLs handle_search builds, and the base with "/N" otherwise.
PaginationAddressing ==
    \A t \in Tasks :
        (PageRun(t) /\ task[t].pc # "idle") =>
            LET a == task[t].action
                n == int(a.value)
            IN /\ Len(PageFetches(t)) = 1
               /\ PageFetches(t)[1].url =
                    (IF n = 0 THEN a.url
                     ELSE IF startswith(a.url, base_url \o "/search?")
                          THEN a.url \o "&pageNumber=" \o str(n)
                          ELSE a.url \o "/" \o str(n))

----------------------------------------------------------------------------
(* Claims about the Session, checked under SpecSession *)

Fetched == reg.op \in {"fetch_page", "fetch_document"}

\* the expiry times of the cookies of a jar that declare one
Expiries(c) == {c[i] : i \in DOMAIN c} \ {0}

\* the earliest cookie expiry of the jar lies before time t
Elapsed(c, t) == \E e \in Expiries(c) : e < t

\* the login attempt failed: a network error or a status outside 2xx
LoginFailed(o) == o.raises \/ o.status \notin 200..299

Logins(net) == SelectSeq(net, LAMBDA r : r.req = "login")

\* the fetch's own request was made without cookies: a direct parse of the
\* URL for a page, a GET with no cookies for a document
Unauthenticated(op, net) ==
    /\ Len(net) >= 1
    /\ net[Len(net)].cookies = <<>>
    /\ net[Len(net)].req = (IF op = "fetch_page" THEN "parse" ELSE "get")

\* C11: a fetch made after the earliest cookie expiry of the Session has
\* passed makes exactly one login request, before its own request, and its
\* own request goes with the cookies of the login response, or without
\* cookies when the login attempt failed.
SessionRefresh ==
    (Fetched /\ Elapsed(reg.before, reg.clock)) =>
        /\ Len(reg.net) = 2
        /\ reg.net[1].req = "login"
        /\ reg.net[2].req # "login"
        /\ IF LoginFailed(reg.login)
           THEN cookies = <<>> /\ Unauthenticated(reg.op, reg.net)
           ELSE cookies = reg.login.jar /\ reg.net[2].cookies = reg.login.jar

\* C12: a fetch logs in only if the Session holds no cookies or its earliest
\* expiry has passed; a Session that holds a cookie, none of them expired
\* (cookies without expiry included), is reused: no login request is made,
\* the Session stays as it is and the request goes with its cookies.
SessionReuse ==
    Fetched =>
        /\ Logins(reg.net) # <<>> => (reg.before = <<>> \/ Elapsed(reg.before, reg.clock))
        /\ (reg.before # <<>> /\ ~Elapsed(reg.before, reg.clock)) =>
              /\ Logins(reg.net) = <<>>
              /\ cookies = reg.before
              /\ reg.net[Len(reg.net)].cookies = reg.before

\* C13: when the login request of a fetch fails (network error or a status
\* outside 2xx), the fetch still makes its own request, the Session becomes
\* empty and that request goes unauthenticated.
LoginFailureNonFatal ==
    (Fetched /\ Logins(reg.net) # <<>> /\ LoginFailed(reg.login)) =>
        /\ Len(reg.net) = 2
        /\ cookies = <<>>
        /\ Unauthenticated(reg.op, reg.net)

----------------------------------------------------------------------------
(* Claims about failures in the handlers *)

CallbackRun(t) == task[t].handler = "handle_callback" /\ task[t].pc # "idle"

\* C14: a button press whose page or document request ends with a
\* non-success status raises: the run sends nothing and passes no Action to
\* add, whatever the kind of the Action pressed.
FetchFailureNoTrace ==
    \A t \in Tasks :
        (CallbackRun(t) /\ task[t].fetch = "error") =>
            /\ task[t].pc = "failed"
            /\ Calls(t) = <<>>
            /\ task[t].added = <<>>

\* C15: a callback whose token has no record in the store is handled
\* without an unhandled error: the lookup yields None, no request is made
\* and no Action is added, and the handler does not raise.
UnresolvableToken ==
    \A t \in Tasks :
        (CallbackRun(t) /\ Repo_get(store, task[t].data) = None) =>
            /\ task[t].action = None
            /\ task[t].net = <<>>
            /\ task[t].added = <<>>
            /\ task[t].pc # "failed"

\* a step of a handler other than t: an update is dispatched to it, or it is
\* resumed from an await
OtherHandlerStep(t) ==
    \E u \in Tasks \ {t} :
        \/ HandleMessage(u, LoopFree /\ CanOverlap(u))
        \/ StartRequest(u)
        \/ CallbackRequest(u)
        \/ CallbackMiss(u)
        \/ LoopFree /\ Transport(u)

\* C16: while a handler is blocked in a catalog request, a handler for
\* another update can take a step: one that waits at an await can be
\* resumed, and an update that is due can be dispatched.
NoCrossUserBlocking ==
    \A t \in Tasks :
        (task[t].pc = "blocked"
         /\ (updates < MaxConcurrentUpdates \/ \E u \in Tasks \ {t} : task[u].pc = "run"))
        => ENABLED OtherHandlerStep(t)

----------------------------------------------------------------------------
(* Claims about the entry branch *)

EntryRun(t) ==
    /\ task[t].handler = "handle_callback"
    /\ task[t].action # None
    /\ task[t].action.action_type = "entry"

\* the entry a run of the entry branch shows
Shown(t) == task[t].entries[int(task[t].action.value) + 1]

\* the run sends the display text in chunks: after the photo alone, or
\* after the BadRequest of the send of the whole text
Chunked(t) ==
    /\ EntryRun(t)
    /\ Registered(t)
    /\ \/ Calls(t)[1].op = "send_photo" /\ Calls(t)[1].text = "" /\ Calls(t)[1].fallback = <<>>
       \/ Calls(t)[1].op = "send_message" /\ task[t].caught

TextMessages(calls) == SelectSeq(calls, LAMBDA c : c.op = "send_message")

RECURSIVE Concat(_)
Concat(calls) == IF calls = <<>> THEN "" ELSE calls[1].text \o Concat(Tail(calls))

\* C17: when the entry branch sends the display text in chunks, the text
\* messages of the run, those sent and those still to send, are
\* ceil(L / 4096) in number and their texts in order make up the display
\* text; when the run is done all of them have been sent.
Chunking ==
    \A t \in Tasks :
        Chunked(t) =>
            LET text == display_text(Shown(t))
                L == Len(text)
                messages == TextMessages(Calls(t))
            IN /\ Len(messages) = (L + 4096 - 1) \div 4096
               /\ Concat(messages) = text
               /\ task[t].pc = "done" => TextMessages(task[t].out) = messages

\* C17 witness: a display text of 8193 characters has been sent in three
\* messages after the photo.
ChunkingWitness ==
    \E t \in Tasks :
        /\ Chunked(t)
        /\ task[t].pc = "done"
        /\ Len(display_text(Shown(t))) = 8193
        /\ Len(TextMessages(task[t].out)) = 3
        /\ task[t].out[1].op = "send_photo"

\* the extension the claim gives each downloadable format
FormatExtension ==
    [t \in DownloadTypes |->
        CASE t = "application/epub+zip" -> "epub"
          [] t = "application/epub" -> "epub"
          [] t = "application/fb2+zip" -> "fb2"
          [] t = "application/pdf" -> "pdf"
          [] t = "application/x-mobipocket-ebook" -> "mobi"
          [] t = "application/djvu" -> "djvu"
          [] OTHER -> "zip"]

\* the authors of an entry, each but the last followed by ", "
RECURSIVE CommaJoined(_, _)
CommaJoined(authors, acc) ==
    IF authors = <<>> THEN acc
    ELSE CommaJoined(Tail(authors), acc \o authors[1] \o (IF Len(authors) > 1 THEN ", " ELSE ""))

Opened == reg.op = "opened"

\* C18: the download Actions passed to add by the entry branch are, in the
\* order of the links, one per link of a downloadable format, with url the
\* href of the link and value "<authors joined by ', '> - <title>.<ext>"
\* when the entry has authors and "<title>.<ext>" when it has none.
DownloadNaming ==
    Opened =>
        LET e == reg.entry
            links == SelectSeq(e.links, LAMBDA l : l.type \in DOMAIN FormatExtension)
            downloads == SelectSeq(reg.added, LAMBDA a : a.action_type = "download")
            name == IF e.authors # <<>> THEN CommaJoined(e.authors, "") \o " - " \o e.text
                    ELSE e.text
        IN /\ Len(downloads) = Len(links)
           /\ \A i \in DOMAIN links :
                 /\ downloads[i].url = links[i].href
                 /\ downloads[i].value = name \o "." \o FormatExtension[links[i].type]

\* C18 witness: the scenario of two authors and an epub link.
DownloadNamingWitness ==
    /\ Opened
    /\ reg.entry.authors = <<"A. Strugatsky", "B. Strugatsky">>
    /\ \E i \in DOMAIN reg.added :
          reg.added[i] = Action("download", "http://flibusta.is/b/1/epub",
                                "A. Strugatsky, B. Strugatsky - Roadside Picnic.epub")

\* the fixed order of preference of the cover relations
CoverOrder == <<"x-stanza-cover-image", "http://opds-spec.org/image",
                "http://opds-spec.org/image/thumbnail", "x-stanza-cover-image-thumbnail">>

\* the photo the run sends, "" when it sends none
Cover(todo) == IF todo[1].op = "send_photo" THEN todo[1].photo ELSE ""

\* C19: the cover sent is the image link of the first relation of the fixed
\* order that the entry has, wherever the image links stand in the entry;
\* no cover is sent exactly when the entry has none of the four relations.
CoverPreference ==
    Opened =>
        LET images == SelectSeq(reg.entry.links, LAMBDA l : l.type = "image/jpeg")
            rels == {images[i].rel : i \in DOMAIN images}
            present == {k \in DOMAIN CoverOrder : CoverOrder[k] \in rels}
        IN IF present = {} THEN Cover(reg.todo) = ""
           ELSE LET first == CHOOSE k \in present : \A j \in present : k <= j
                IN \E i \in DOMAIN images :
                      /\ images[i].rel = CoverOrder[first]
                      /\ Cover(reg.todo) = images[i].href

\* C19 witness: the scenario: the spec thumbnail stands before the stanza
\* full image in the entry, and the stanza full image is sent.
CoverPreferenceWitness ==
    /\ Opened
    /\ \E i \in DOMAIN reg.entry.links, j \in DOMAIN reg.entry.links :
          /\ i < j
          /\ reg.entry.links[i].rel = "http://opds-spec.org/image/thumbnail"
          /\ reg.entry.links[j].rel = "x-stanza-cover-image"
    /\ Cover(reg.todo) = ImageLink("x-stanza-cover-image").href

\* the first text a run shows: a caption or a message
FirstText(calls) ==
    LET texts == SelectSeq(calls, LAMBDA c : c.text # "")
    IN IF texts = <<>> THEN "" ELSE texts[1].text

\* C20: when the index of an open_entry Action is not a position in the
\* entries its fetch returned, the handler raises, sends nothing and adds
\* no Action; a run that shows an entry shows the one at the index.
OutOfRangeIndex ==
    \A t \in Tasks :
        (EntryRun(t) /\ task[t].pc # "idle") =>
            LET index == int(task[t].action.value)
            IN /\ (task[t].fetch = "ok" /\ index >= Len(task[t].entries)) =>
                    /\ task[t].pc = "failed"
                    /\ Calls(t) = <<>>
                    /\ task[t].added = <<>>
               /\ Registered(t) =>
                    /\ index < Len(task[t].entries)
                    /\ startswith(FirstText(Calls(t)), Shown(t).text \o "\n")

\* C20 witness: /start showed two entries, the feed has shrunk to one, and
\* the press of the second button has raised.
OutOfRangeIndexWitness ==
    \E t \in Tasks :
        /\ EntryRun(t)
        /\ task[t].pc = "failed"
        /\ task[t].fetch = "ok"
        /\ task[t].action.value = "1"
        /\ Len(task[t].entries) = 1

----------------------------------------------------------------------------
(* Claims about entry buttons and acknowledgement *)

\* a run that lists entries: a search, the page branch or handle_start
ListingRun(t) == SearchRun(t) \/ PageRun(t) \/ task[t].handler = "handle_start"

Answers(calls) == SelectSeq(calls, LAMBDA c : c.op = "answer")

\* C22: a callback press whose handling has completed has been answered
\* exactly once, by the last call of the run, whatever the kind of its
\* Action; a press whose handling has failed has not been answered.
Acknowledgement ==
    \A t \in Tasks :
        CallbackRun(t) =>
            /\ task[t].pc = "done" =>
                  /\ Len(Answers(task[t].out)) = 1
                  /\ task[t].out[Len(task[t].out)].op = "answer"
            /\ task[t].pc = "failed" => Answers(task[t].out) = <<>>

====
